---- MODULE Spec2Model ----
(***************************************************************************)
(* Model of assistant.py: the /process_command endpoint (intent dispatch), *)
(* the reminder handler set_reminder_data, the weather and news lookups    *)
(* and the due-sweep over the global list `reminders`.                     *)
(*                                                                         *)
(* Python strings are sequences of one-character strings, so that the      *)
(* substring tests, split, strip and the regular expression are computed   *)
(* the way the code computes them.  Time is a number of seconds.  Spec     *)
(* serves the calls one at a time; SpecThreads interleaves two calls at    *)
(* the statements that touch the shared list.                              *)
(***************************************************************************)
EXTENDS Integers, Sequences, FiniteSets, TLC

VARIABLES
    reminders,   \* the global list `reminders` (assistant.py:36)
    now,         \* the wall clock read by datetime.datetime.now()
    keys,        \* which of the two API keys the environment sets
    last,        \* record of the latest process_command call (its inputs and result)
    calls,       \* number of process_command calls so far
    ticks,       \* number of clock advances between calls so far
    created,     \* number of reminder dicts created so far
    fired,       \* the identities of the reminders an alert was computed for, in order
    pc,          \* concurrent serving: each request thread's position
    loc          \* concurrent serving: each request thread's local variables

vars == <<reminders, now, keys, last, calls, ticks, created, fired, pc, loc>>

\* ---------------------------------------------------------------- bounds
\* Calls served one at a time, clock advances between them, and calls each
\* thread serves.
MaxCalls == 2
MaxTicks == 2
MaxThreadCalls == 1

\* The clock counts whole seconds; a request is served within one.  The
\* server starts at 11:59:55 and time passes between requests in steps.
StartTimes == {43195}
TickSteps == {150}

\* ---------------------------------------------------------------- str
Whitespace == {" ", "\t"}
Digits == <<"0", "1", "2", "3", "4", "5", "6", "7", "8", "9">>
UpperAlpha == <<"A","B","C","D","E","F","G","H","I","J","K","L","M",
                "N","O","P","Q","R","S","T","U","V","W","X","Y","Z">>
LowerAlpha == <<"a","b","c","d","e","f","g","h","i","j","k","l","m",
                "n","o","p","q","r","s","t","u","v","w","x","y","z">>

IsDigit(c) == \E i \in 1..10 : Digits[i] = c
DigitValue(c) == (CHOOSE i \in 1..10 : Digits[i] = c) - 1

\* str.lower()
LowerChar(c) ==
    IF \E i \in 1..26 : UpperAlpha[i] = c
    THEN LowerAlpha[CHOOSE i \in 1..26 : UpperAlpha[i] = c]
    ELSE c
Lower(s) == [i \in 1..Len(s) |-> LowerChar(s[i])]

\* s[i:] with a 1-based i
From(s, i) == SubSeq(s, i, Len(s))

\* s.startswith(k, i-1)
StartsAt(s, k, i) == i + Len(k) - 1 <= Len(s) /\ SubSeq(s, i, i + Len(k) - 1) = k

\* k in s
Contains(s, k) == \E i \in 1..(Len(s) + 1) : StartsAt(s, k, i)

\* s.find(k) + 1 (0 when k does not occur)
Find(s, k) ==
    IF Contains(s, k)
    THEN CHOOSE i \in 1..(Len(s) + 1) :
            StartsAt(s, k, i) /\ \A j \in 1..(i - 1) : ~StartsAt(s, k, j)
    ELSE 0

\* any(keyword in s for keyword in kws)
AnyIn(kws, s) == \E i \in 1..Len(kws) : Contains(s, kws[i])

\* s.strip()
Strip(s) ==
    LET idx == {i \in 1..Len(s) : s[i] \notin Whitespace}
    IN  IF idx = {} THEN <<>>
        ELSE SubSeq(s, CHOOSE i \in idx : \A j \in idx : i <= j,
                       CHOOSE i \in idx : \A j \in idx : i >= j)

\* s.split(k, 1)[1]; the code only calls it when k occurs in s
SplitAfter(s, k) == From(s, Find(s, k) + Len(k))

\* s.split(" ")[0]
SplitSpaceHead(s) ==
    IF Contains(s, <<" ">>) THEN SubSeq(s, 1, Find(s, <<" ">>) - 1) ELSE s

\* int(s): the value, or -1 where Python raises ValueError
RECURSIVE DigitsValue(_)
DigitsValue(s) ==
    IF s = <<>> THEN 0
    ELSE 10 * DigitsValue(SubSeq(s, 1, Len(s) - 1)) + DigitValue(s[Len(s)])
ParseInt(s) ==
    LET t == Strip(s)
    IN  IF t # <<>> /\ \A i \in 1..Len(t) : IsDigit(t[i]) THEN DigitsValue(t) ELSE -1

\* str(n) for n >= 0
RECURSIVE IntToStr(_)
IntToStr(n) ==
    IF n < 10 THEN <<Digits[n + 1]>>
    ELSE IntToStr(n \div 10) \o <<Digits[(n % 10) + 1]>>

\* two-digit zero-padded field of strftime / isoformat
TwoDigits(n) == <<Digits[(n \div 10) + 1], Digits[(n % 10) + 1]>>

\* ---------------------------------------------------------------- tables
TimeKeywords ==
    << <<"t", "i", "m", "e">>,
       <<"h", "o", "u", "r">>,
       <<"c", "l", "o", "c", "k">>,
       <<"o", "'", "c", "l", "o", "c", "k">> >>

WeatherKeywords ==
    << <<"w", "e", "a", "t", "h", "e", "r">>,
       <<"c", "l", "i", "m", "a", "t", "e">>,
       <<"f", "o", "r", "e", "c", "a", "s", "t">>,
       <<"m", "e", "t", "e", "o", "r", "o", "l", "o", "g", "y">>,
       <<"t", "e", "m", "p", "e", "r", "a", "t", "u", "r", "e">>,
       <<"c", "l", "o", "u", "d", " ", "c", "o", "v", "e", "r">>,
       <<"w", "i", "n", "d", "s", "p", "e", "e", "d">>,
       <<"h", "u", "m", "i", "d", "i", "t", "y">>,
       <<"p", "r", "e", "s", "s", "u", "r", "e">> >>

ReminderKeywords ==
    << <<"r", "e", "m", "i", "n", "d", "e", "r">>,
       <<"r", "e", "m", "i", "n", "d", " ", "m", "e">>,
       <<"s", "e", "t", " ", "r", "e", "m", "i", "n", "d", "e", "r">> >>

ConfirmationKeywords ==
    << <<"y", "e", "s">>,
       <<"w", "o", "u", "l", "d", " ", "l", "i", "k", "e">>,
       <<"i", "'", "d", " ", "l", "i", "k", "e", " ", "t", "h", "a", "t">>,
       <<"a", "f", "f", "i", "r", "m", "a", "t", "i", "v", "e">>,
       <<"c", "o", "n", "f", "i", "r", "m", "a", "t", "i", "v", "e">>,
       <<"y", "e", "p">>,
       <<"y", "e", "a", "h">>,
       <<"p", "l", "e", "a", "s", "e", " ", "d", "o">>,
       <<"s", "u", "r", "e">>,
       <<"p", "o", "s", "i", "t", "i", "v", "e">>,
       <<"d", "o", " ", "i", "t">> >>

GoodbyeKeywords ==
    << <<"e", "x", "i", "t">>,
       <<"g", "o", "o", "d", "b", "y", "e">>,
       <<"b", "y", "e">>,
       <<"s", "e", "e", " ", "y", "o", "u", " ", "l", "a", "t", "e", "r">>,
       <<"t", "a", "t", "a">>,
       <<"s", "e", "e", " ", "y", "a">>,
       <<"s", "h", "a", "r", "e", "e", "n", "n", "a">>,
       <<"a", "l", "v", "i", "d", "a">>,
       <<"a", "d", "i", "o", "s">>,
       <<"c", "i", "a", "o">>,
       <<"a", "u", " ", "r", "e", "v", "o", "i", "r">>,
       <<"s", "a", "y", "o", "n", "a", "r", "a">>,
       <<"p", "o", "o", "t", "t", "e">> >>

trigger_words ==
    << <<"o", "n">>,
       <<"a", "b", "o", "u", "t">>,
       <<"r", "e", "l", "a", "t", "i", "n", "g", " ", "t", "o">>,
       <<"f", "o", "r">> >>

WEATHER_LOCATION == <<"N", "e", "w", " ", "D", "e", "l", "h", "i">>

KwNews == <<"n", "e", "w", "s">>

KwWeatherIn == <<"w", "e", "a", "t", "h", "e", "r", " ", "i", "n">>

KwWeatherAt == <<"w", "e", "a", "t", "h", "e", "r", " ", "a", "t">>

KwTo == <<" ", "t", "o", " ">>

KwSeconds == <<"s", "e", "c", "o", "n", "d", "s">>

KwMinutes == <<"m", "i", "n", "u", "t", "e", "s">>

KwSecond == <<"s", "e", "c", "o", "n", "d">>

KwMinute == <<"m", "i", "n", "u", "t", "e">>

\* The commands the requests of the model carry.
Commands ==
    { <<"w", "h", "a", "t", " ", "t", "i", "m", "e", " ", "i", "s", " ", "t", "h", "e", " ", "w", "e", "a", "t", "h", "e", "r", " ", "f", "o", "r", "e", "c", "a", "s", "t">>,
      <<"w", "h", "a", "t", "'", "s", " ", "t", "h", "e", " ", "w", "e", "a", "t", "h", "e", "r", " ", "i", "n", " ", "T", "o", "k", "y", "o">>,
      <<"t", "e", "l", "l", " ", "m", "e", " ", "t", "h", "e", " ", "n", "e", "w", "s", " ", "a", "b", "o", "u", "t", " ", "t", "e", "c", "h", "n", "o", "l", "o", "g", "y">>,
      <<"R", "e", "m", "i", "n", "d", " ", "m", "e", " ", "i", "n", " ", "5", " ", "m", "i", "n", "u", "t", "e", "s", " ", "t", "o", " ", "c", "a", "l", "l", " ", "m", "o", "m">>,
      <<"r", "e", "m", "i", "n", "d", " ", "m", "e", " ", "i", "n", " ", "1", " ", "m", "i", "n", "u", "t", "e", " ", "t", "o", " ", "c", "a", "l", "l", " ", "m", "o", "m">>,
      <<"r", "e", "m", "i", "n", "d", " ", "m", "e", " ", "i", "n", " ", "1", "0", "s", "e", "c", "o", "n", "d", "s", " ", "t", "o", " ", "s", "t", "r", "e", "t", "c", "h">>,
      <<"r", "e", "m", "i", "n", "d", " ", "m", "e", " ", "i", "n", " ", "0", " ", "s", "e", "c", "o", "n", "d", "s", " ", "t", "o", " ", "s", "t", "r", "e", "t", "c", "h">>,
      <<"r", "e", "m", "i", "n", "d", " ", "m", "e", " ", "i", "n", " ", "1", "0", " ", "s", "e", "c", "o", "n", "d", "s", " ", "g", "o", " ", "t", "o", " ", "b", "e", "d">>,
      <<"s", "e", "t", " ", "r", "e", "m", "i", "n", "d", "e", "r", " ", "5", " ", "m", "i", "n", "u", "t", "e", "s">>,
      <<"r", "e", "m", "i", "n", "d", " ", "m", "e", " ", "l", "a", "t", "e", "r">>,
      <<"r", "e", "m", "i", "n", "d", " ", "m", "e", " ", "a", "t", " ", "5", " ", "o", "'", "c", "l", "o", "c", "k">>,
      <<"y", "e", "s">>,
      <<"g", "o", "o", "d", "b", "y", "e">>,
      <<"h", "e", "l", "l", "o">> }

\* ---------------------------------------------------------------- re
\* The end (inclusive) of a match of (\d+)\s*(seconds?|minutes?) that starts
\* at i, or 0.  \d+ and \s* are greedy; giving a digit or a blank back never
\* helps, since a unit starts with neither.
RECURSIVE SkipDigits(_, _)
SkipDigits(s, i) == IF i <= Len(s) /\ IsDigit(s[i]) THEN SkipDigits(s, i + 1) ELSE i
RECURSIVE SkipSpace(_, _)
SkipSpace(s, i) == IF i <= Len(s) /\ s[i] \in Whitespace THEN SkipSpace(s, i + 1) ELSE i

UnitEnd(s, k, unit) ==
    LET e == k + Len(unit) - 1
    IN  IF e + 1 <= Len(s) /\ s[e + 1] = "s" THEN e + 1 ELSE e

MatchEnd(s, i) ==
    IF i > Len(s) \/ ~IsDigit(s[i]) THEN 0
    ELSE LET k == SkipSpace(s, SkipDigits(s, i))
         IN  IF StartsAt(s, KwSecond, k) THEN UnitEnd(s, k, KwSecond)
             ELSE IF StartsAt(s, KwMinute, k) THEN UnitEnd(s, k, KwMinute)
             ELSE 0

\* re.search(r'(\d+)\s*(seconds?|minutes?)', s): match.group(0) of the
\* leftmost match, or <<>> for None (a match is never empty).
ReSearch(s) ==
    LET starts == {i \in 1..Len(s) : MatchEnd(s, i) > 0}
    IN  IF starts = {} THEN <<>>
        ELSE LET i == CHOOSE i \in starts : \A j \in starts : i <= j
             IN  SubSeq(s, i, MatchEnd(s, i))

\* ---------------------------------------------------------------- datetime
\* datetime.isoformat() of a clock value with no microseconds: the date
\* (here: the day number), "T", and HH:MM:SS.
isoformat(t) ==
    TwoDigits(t \div 86400) \o <<"T">> \o TwoDigits((t % 86400) \div 3600) \o <<":">>
        \o TwoDigits((t % 3600) \div 60) \o <<":">> \o TwoDigits(t % 60)

\* datetime.fromisoformat()
fromisoformat(s) ==
    DigitsValue(SubSeq(s, 1, 2)) * 86400 + DigitsValue(SubSeq(s, 4, 5)) * 3600
        + DigitsValue(SubSeq(s, 7, 8)) * 60 + DigitsValue(SubSeq(s, 10, 11))

\* strftime with the hour taken modulo 12 and not mapped to 1..12
strftimeHourModulo(t) ==
    LET h24 == (t % 86400) \div 3600
    IN  TwoDigits(h24 % 12) \o <<":">> \o TwoDigits((t % 3600) \div 60) \o <<" ">>
            \o (IF h24 >= 12 THEN <<"P", "M">> ELSE <<"A", "M">>)

\* datetime.strftime("%I:%M %p")
strftime(t) ==
    LET h24 == (t % 86400) \div 3600
        h12 == IF h24 % 12 = 0 THEN 12 ELSE h24 % 12
    IN  TwoDigits(h12) \o <<":">> \o TwoDigits((t % 3600) \div 60) \o <<" ">>
            \o (IF h24 >= 12 THEN <<"P", "M">> ELSE <<"A", "M">>)

\* ---------------------------------------------------------------- dict
\* An f-string: its literal text with {} for each hole, and the holes' values.
Text(fmt, args) == [fmt |-> fmt, args |-> args]

\* {**a, **b}
Merge(a, b) ==
    [k \in (DOMAIN a) \cup (DOMAIN b) |-> IF k \in DOMAIN b THEN b[k] ELSE a[k]]

\* What a handler call gives back: the value it returns, or its exception.
Returned(v) == [raised |-> FALSE, value |-> v]
Raised == [raised |-> TRUE, value |-> [text |-> Text("exception", <<>>)]]

\* ---------------------------------------------------------------- lookups
\* The replies the HTTP APIs can give.  A geocoding reply is coordinates, or
\* an empty list or a RequestException (both make get_city_coords return
\* None).  A weather reply is a body with conditions, a body with cod "404",
\* a RequestException, or a body without "main" (a KeyError).  A news reply
\* is a body with a status and results, a RequestException, or a body whose
\* article has no "webTitle" (a KeyError).
GeoReplies == {"coords", "empty"}
WeatherReplies == {"ok", "notfound", "transport", "malformed"}
WeatherBody ==
    [temp |-> <<"21.5">>, humidity |-> <<"40">>, pressure |-> <<"1013">>,
     description |-> <<"clear sky">>]
Article1 == [webTitle |-> <<"t1">>, webUrl |-> <<"u1">>]
Article2 == [webTitle |-> <<"t2">>, webUrl |-> <<"u2">>]
NewsReplies ==
    { [kind |-> "body", status |-> "ok", results |-> <<Article1, Article2>>],
      [kind |-> "body", status |-> "ok", results |-> <<>>],
      [kind |-> "body", status |-> "error", results |-> <<>>],
      [kind |-> "transport", status |-> "", results |-> <<>>],
      [kind |-> "malformed", status |-> "ok", results |-> <<Article1>>] }

\* get_city_coords: TRUE when coordinates were resolved
get_city_coords(city_name, hasKey, geo) ==
    IF ~hasKey THEN FALSE ELSE geo = "coords"

\* get_weather_data; <<>> stands for a location of None (or "", equally falsy)
get_weather_data(location, hasKey, geo, api) ==
    IF ~hasKey
    THEN Returned([text |-> Text("Please set your OpenWeatherMap API key.", <<>>)])
    ELSE
    LET location_to_use == IF location # <<>> THEN location ELSE WEATHER_LOCATION
        coords == get_city_coords(location_to_use, hasKey, geo)
    IN  CASE api = "transport" ->
               Returned([text |-> Text("Sorry, I had trouble getting the weather. The error was: {}",
                                       <<IF coords THEN <<"lat,lon">> ELSE location_to_use>>)])
          [] api = "notfound" ->
               Returned([text |-> Text("I couldn't find the weather for {}.", <<location_to_use>>)])
          [] api = "malformed" -> Raised
          [] OTHER ->
               Returned(
                 [text |-> Text("The temperature in {} is {} degrees Celsius, with {}. The humidity is {} percent, and the atmospheric pressure is {} hectopascals.",
                                <<location_to_use, WeatherBody.temp, WeatherBody.description,
                                  WeatherBody.humidity, WeatherBody.pressure>>),
                  location |-> location_to_use,
                  temperature |-> WeatherBody.temp,
                  humidity |-> WeatherBody.humidity,
                  pressure |-> WeatherBody.pressure,
                  description |-> WeatherBody.description])

\* get_news_data; <<>> stands for a query of None (or "", equally falsy)
get_news_data(query, hasKey, api) ==
    IF ~hasKey
    THEN Returned([text |-> Text("Please set your Guardian API key.", <<>>), articles |-> <<>>])
    ELSE IF api.kind = "transport"
    THEN Returned([text |-> Text("Sorry, I had trouble getting the news. The error was: {}", <<>>),
                   articles |-> <<>>])
    ELSE IF api.status = "ok" /\ api.results # <<>>
    THEN LET articles == api.results
         IN  IF articles = <<>>
             THEN Returned([text |-> Text("I couldn't find any news headlines for that topic from yesterday.", <<>>),
                            articles |-> <<>>])
             ELSE IF api.kind = "malformed" THEN Raised
             ELSE Returned(
                    [text |-> Text(IF query # <<>>
                                   THEN "Getting the latest news about {} from yesterday from The Guardian. {headlines}. Would you like me to provide the URLs to see the full articles?"
                                   ELSE "Here are the top headlines from yesterday from The Guardian: {headlines}. Would you like me to provide the URLs to see the full articles?",
                                   (IF query # <<>> THEN <<query>> ELSE <<>>)
                                      \o [i \in 1..Len(articles) |-> articles[i].webTitle]),
                     articles |-> [i \in 1..Len(articles) |->
                                     [title |-> articles[i].webTitle, url |-> articles[i].webUrl]]])
    ELSE Returned([text |-> Text("I couldn't fetch any news headlines at the moment.", <<>>),
                   articles |-> <<>>])

\* ---------------------------------------------------------------- reminders
\* A reminder is the dict {"time": isoformat, "text": message}; id is the
\* identity of the dict object, which no comparison of the code reads.
Reminder(time, text, id) == [time |-> time, text |-> text, id |-> id]

\* dict equality, as list.remove compares
SameDict(a, b) == a.time = b.time /\ a.text = b.text

\* the dict as it is serialised into a response
AsJson(r) == [time |-> r.time, text |-> r.text]

\* set_reminder_data: the dict it returns and the list `reminders` after it.
\* t is datetime.datetime.now(), id the identity of the dict it creates.
set_reminder_data(reminder_text, time_str, store, t, id) ==
    LET n == ParseInt(SplitSpaceHead(time_str))
        unit == IF Contains(time_str, KwSeconds) THEN 1
                ELSE IF Contains(time_str, KwMinutes) THEN 60
                ELSE 0
        reminder_data == Reminder(isoformat(t + n * unit), reminder_text, id)
    IN  IF unit = 0
        THEN [value |-> [text |-> Text("I can only set reminders in seconds or minutes for now. Please try again.", <<>>)],
              store |-> store]
        ELSE IF n = -1
        THEN [value |-> [text |-> Text("Sorry, I couldn't understand the time. Please specify a number followed by 'seconds' or 'minutes'.", <<>>)],
              store |-> store]
        ELSE [value |-> [text |-> Text(IF unit = 1
                                       THEN "Okay, I will remind you to '{}' in {} seconds."
                                       ELSE "Okay, I will remind you to '{}' in {} minutes.",
                                       <<reminder_text, IntToStr(n)>>),
                         reminder |-> AsJson(reminder_data)],
              store |-> Append(store, reminder_data)]

\* a remove that leaves the list as it is
RemoveFirstKeeps(store, r) == [raised |-> FALSE, store |-> store]

\* reminders.remove(r): the list without its first element equal to r;
\* raised when there is none (ValueError)
RemoveFirst(store, r) ==
    LET idx == {i \in 1..Len(store) : SameDict(store[i], r)}
    IN  IF idx = {} THEN [raised |-> TRUE, store |-> store]
        ELSE LET i == CHOOSE i \in idx : \A j \in idx : i <= j
             IN  [raised |-> FALSE,
                  store |-> SubSeq(store, 1, i - 1) \o SubSeq(store, i + 1, Len(store))]

\* for reminder in reminders_to_remove: reminders.remove(reminder)
RECURSIVE RemoveAll(_, _)
RemoveAll(store, to_remove) ==
    IF to_remove = <<>> THEN [raised |-> FALSE, store |-> store]
    ELSE LET r == RemoveFirst(store, Head(to_remove))
         IN  IF r.raised THEN r ELSE RemoveAll(r.store, Tail(to_remove))

\* the comparison of IsDue the other way round
IsDueInverted(reminder, current_time) == current_time <= fromisoformat(reminder.time)

\* current_time >= datetime.datetime.fromisoformat(reminder["time"])
IsDue(reminder, current_time) == current_time >= fromisoformat(reminder.time)

ReminderAlert(reminder) ==
    [text |-> Text("Reminder: {}", <<reminder.text>>), type |-> "reminder_alert"]

\* a sweep whose alert is the first due reminder's, not the last one's
SweepFirstDueWins(store, response_data, current_time) ==
    LET due == {i \in 1..Len(store) : IsDue(store[i], current_time)}
        to_remove == SelectSeq(store, LAMBDA r : IsDue(r, current_time))
        removal == RemoveAll(store, to_remove)
    IN  [raised |-> removal.raised,
         response_data |-> IF due = {} THEN response_data
                           ELSE ReminderAlert(store[CHOOSE i \in due : \A j \in due : i <= j]),
         store |-> removal.store,
         to_remove |-> to_remove]

\* The due-sweep of process_command (lines 258-266) run on its own: the
\* response, the list after it, and the reminders it collected.
Sweep(store, response_data, current_time) ==
    LET due == {i \in 1..Len(store) : IsDue(store[i], current_time)}
        to_remove == SelectSeq(store, LAMBDA r : IsDue(r, current_time))
        removal == RemoveAll(store, to_remove)
    IN  [raised |-> removal.raised,
         response_data |-> IF due = {} THEN response_data
                           ELSE ReminderAlert(store[CHOOSE i \in due : \A j \in due : i >= j]),
         store |-> removal.store,
         to_remove |-> to_remove]

\* ---------------------------------------------------------------- dispatch
DefaultResponse ==
    [text |-> Text("I'm sorry, I don't understand that command yet. Please try again.", <<>>),
     type |-> "error"]

\* The weather branch's location_to_check
WeatherLocation(command) ==
    IF Contains(command, KwWeatherIn) \/ Contains(command, KwWeatherAt)
    THEN LET location_keyword == IF Contains(command, KwWeatherIn) THEN KwWeatherIn ELSE KwWeatherAt
         IN  Strip(From(command, Find(command, location_keyword) + Len(location_keyword)))
    ELSE <<>>

\* The news branch's query
NewsQuery(command) ==
    LET hits == {i \in 1..Len(trigger_words) :
                    Contains(command, <<" ">> \o trigger_words[i] \o <<" ">>)}
    IN  IF hits = {} THEN <<>>
        ELSE Strip(SplitAfter(command, trigger_words[CHOOSE i \in hits : \A j \in hits : i <= j]))

\* The reminder branch's reminder_text, given the matched time_str
ReminderText(command, time_str) ==
    LET reminder_text_part == Strip(SplitAfter(command, time_str))
    IN  IF Contains(reminder_text_part, KwTo)
        THEN Strip(SplitAfter(reminder_text_part, KwTo))
        ELSE reminder_text_part

\* a chain that tests the weather keywords before the time keywords
ParseWeatherFirst(command) ==
    LET base == [branch |-> "unknown", location |-> <<>>, query |-> <<>>,
                 time_str |-> <<>>, reminder_text |-> <<>>]
    IN  IF AnyIn(WeatherKeywords, command)
        THEN [base EXCEPT !.branch = "weather", !.location = WeatherLocation(command)]
        ELSE IF AnyIn(TimeKeywords, command) THEN [base EXCEPT !.branch = "time"]
        ELSE IF Contains(command, KwNews)
        THEN [base EXCEPT !.branch = "news", !.query = NewsQuery(command)]
        ELSE IF AnyIn(ReminderKeywords, command)
        THEN LET time_str == ReSearch(command)
             IN  IF time_str = <<>> THEN [base EXCEPT !.branch = "reminder"]
                 ELSE [base EXCEPT !.branch = "reminder", !.time_str = time_str,
                                   !.reminder_text = ReminderText(command, time_str)]
        ELSE IF AnyIn(ConfirmationKeywords, command) THEN [base EXCEPT !.branch = "confirmation"]
        ELSE IF AnyIn(GoodbyeKeywords, command) THEN [base EXCEPT !.branch = "goodbye"]
        ELSE base

\* The parsing the if/elif chain of process_command does on the lowercased
\* command (lines 200-242): the first branch whose keywords occur in it, and
\* what that branch extracts from it.
Parse(command) ==
    LET base == [branch |-> "unknown", location |-> <<>>, query |-> <<>>,
                 time_str |-> <<>>, reminder_text |-> <<>>]
    IN  IF AnyIn(TimeKeywords, command) THEN [base EXCEPT !.branch = "time"]
        ELSE IF AnyIn(WeatherKeywords, command)
        THEN [base EXCEPT !.branch = "weather", !.location = WeatherLocation(command)]
        ELSE IF Contains(command, KwNews)
        THEN [base EXCEPT !.branch = "news", !.query = NewsQuery(command)]
        ELSE IF AnyIn(ReminderKeywords, command)
        THEN LET time_str == ReSearch(command)
             IN  IF time_str = <<>> THEN [base EXCEPT !.branch = "reminder"]
                 ELSE [base EXCEPT !.branch = "reminder", !.time_str = time_str,
                                   !.reminder_text = ReminderText(command, time_str)]
        ELSE IF AnyIn(ConfirmationKeywords, command) THEN [base EXCEPT !.branch = "confirmation"]
        ELSE IF AnyIn(GoodbyeKeywords, command) THEN [base EXCEPT !.branch = "goodbye"]
        ELSE base

\* command = data.get("command", "").lower() and its parsing, for each
\* command a request can carry
Parsed == [c \in Commands \cup {<<>>} |-> Parse(Lower(c))]

\* The handlers the if/elif chain of process_command runs (lines 197-254) for
\* a JSON request carrying the command c: the branch taken, response_data,
\* the list `reminders` after it, the lookups called, the set_reminder_data
\* call made, and whether an exception left the chain.
Branch(c, store, t, env, id) ==
    LET p == Parsed[c]
        base == [branch |-> p.branch, raised |-> FALSE, response_data |-> DefaultResponse,
                 store |-> store, lookups |-> {}, set_call |-> <<>>]
    IN  CASE p.branch = "time" ->
               [base EXCEPT !.response_data = [text |-> Text("The current time is {}", <<strftime(t)>>),
                                               type |-> "time"]]
          [] p.branch = "weather" ->
               LET weather_response ==
                       get_weather_data(p.location, env.weatherKey, env.geo, env.weather)
               IN  [base EXCEPT !.raised = weather_response.raised,
                                !.lookups = IF env.weatherKey THEN {"weather"} ELSE {},
                                !.response_data = Merge([type |-> "weather"], weather_response.value)]
          [] p.branch = "news" ->
               LET news_response == get_news_data(p.query, env.newsKey, env.news)
               IN  [base EXCEPT !.raised = news_response.raised,
                                !.lookups = IF env.newsKey THEN {"news"} ELSE {},
                                !.response_data = Merge([type |-> "news"], news_response.value)]
          [] p.branch = "reminder" ->
               IF p.time_str = <<>>
               THEN [base EXCEPT !.response_data =
                                     [text |-> Text("To set a reminder, please use a phrase like, 'set a reminder to take out the trash in 5 minutes'.", <<>>),
                                      type |-> "error"]]
               ELSE IF p.reminder_text = <<>>
               THEN [base EXCEPT !.response_data =
                                     [text |-> Text("I found a time, but couldn't find a reminder message. Please use a phrase like 'remind me in 5 minutes to call mom.'", <<>>),
                                      type |-> "error"]]
               ELSE LET reminder_response ==
                            set_reminder_data(p.reminder_text, p.time_str, store, t, id)
                    IN  [base EXCEPT !.set_call = <<[message |-> p.reminder_text,
                                                     time_spec |-> p.time_str]>>,
                                     !.store = reminder_response.store,
                                     !.response_data =
                                         Merge([type |-> "reminder_set"], reminder_response.value)]
          [] p.branch = "confirmation" ->
               [base EXCEPT !.response_data = [text |-> Text("Okay, displaying the links now.", <<>>),
                                               type |-> "news_confirmation"]]
          [] p.branch = "goodbye" ->
               [base EXCEPT !.response_data = [text |-> Text("Goodbye! Have a great day.", <<>>),
                                               type |-> "goodbye"]]
          [] OTHER -> base

ErrorResponse ==
    [text |-> Text("An error occurred: {}", <<>>), type |-> "error"]

\* ---------------------------------------------------------------- requests
\* The POST bodies: no JSON body, a JSON object without "command", and a
\* JSON object with a command.
Requests ==
    {[json |-> FALSE, command |-> <<>>], [json |-> TRUE, command |-> <<>>]}
        \cup {[json |-> TRUE, command |-> c] : c \in Commands}

\* What the outside world answers during one call: the replies of the
\* geocoding, weather and news APIs.  A call reads only the replies of the
\* lookup its branch makes.
DefaultEnv == [geo |-> "coords", weather |-> "ok", news |-> CHOOSE r \in NewsReplies : r.kind = "transport"]
Envs(c) ==
    CASE Parsed[c].branch = "weather" ->
            {[DefaultEnv EXCEPT !.weather = w] : w \in WeatherReplies}
                \cup {[DefaultEnv EXCEPT !.geo = g] : g \in GeoReplies}
      [] Parsed[c].branch = "news" -> {[DefaultEnv EXCEPT !.news = n] : n \in NewsReplies}
      [] OTHER -> {DefaultEnv}

Threads == {1, 2}

NoCall ==
    [json |-> FALSE, command |-> <<>>, status |-> 0, response |-> DefaultResponse,
     raised |-> FALSE, branch |-> "none", before |-> <<>>, afterBranch |-> <<>>,
     branchResponse |-> DefaultResponse, swept |-> FALSE, t |-> 0, current_time |-> 0,
     lookups |-> {}, set_call |-> <<>>, to_remove |-> <<>>, api |-> DefaultEnv]

\* A request thread's local variables: the calls it has served, and
\* response_data, current_time, the position of the list iterator of the
\* loop at line 260, reminders_to_remove, and the status it answered.
IdleLocals ==
    [n |-> 0, response_data |-> DefaultResponse, current_time |-> 0, i |-> 0,
     to_remove |-> <<>>, status |-> 0, remove_failed |-> FALSE]

Ids(list) == [i \in 1..Len(list) |-> list[i].id]

Init ==
    /\ reminders = <<>>
    /\ now \in StartTimes
    /\ keys \in [weather : BOOLEAN, news : BOOLEAN]
    /\ last = NoCall
    /\ calls = 0
    /\ ticks = 0
    /\ created = 0
    /\ fired = <<>>
    /\ pc = [t \in Threads |-> "idle"]
    /\ loc = [t \in Threads |-> IdleLocals]

\* Time passes between two requests.
Tick(step) ==
    /\ ticks < MaxTicks
    /\ \A t \in Threads : pc[t] = "idle"
    /\ now' = now + step
    /\ ticks' = ticks + 1
    /\ UNCHANGED <<reminders, keys, last, calls, created, fired, pc, loc>>

\* The end of process_command (lines 268-271), given what its if/elif chain
\* (b) and its due-sweep (s) did: the response, and the list `reminders` left
\* behind.  The except clause answers 500 for an exception of request.json,
\* of the chain or of the sweep, and what follows the exception is skipped.
Respond(req, api, b, s) ==
    LET branched == req.json
        swept == branched /\ ~b.raised
        ok == swept /\ ~s.raised
    IN  /\ reminders' = IF ~branched THEN reminders
                        ELSE IF ~swept THEN b.store
                        ELSE s.store
        /\ created' = IF branched THEN created + (Len(b.store) - Len(reminders)) ELSE created
        /\ fired' = IF swept THEN fired \o Ids(s.to_remove) ELSE fired
        /\ last' = [json |-> req.json,
                    command |-> IF branched THEN Lower(req.command) ELSE <<>>,
                    status |-> IF ok THEN 200 ELSE 500,
                    response |-> IF ok THEN s.response_data ELSE ErrorResponse,
                    raised |-> ~ok,
                    branch |-> IF branched THEN b.branch ELSE "none",
                    before |-> reminders,
                    afterBranch |-> IF branched THEN b.store ELSE reminders,
                    branchResponse |-> IF branched THEN b.response_data ELSE DefaultResponse,
                    swept |-> swept,
                    t |-> now,
                    current_time |-> now,
                    lookups |-> IF branched THEN b.lookups ELSE {},
                    set_call |-> IF branched THEN b.set_call ELSE <<>>,
                    to_remove |-> IF swept THEN s.to_remove ELSE <<>>,
                    api |-> api]

\* Lines 256-266 after the chain: the due-sweep over the list the chain left.
SweepAndRespond(req, api, b) ==
    Respond(req, api, b, Sweep(b.store, b.response_data, now))

\* One call of process_command, served alone (lines 188-271): request.json,
\* the if/elif chain, the due-sweep, and the response.
ProcessCommand(req, api) ==
    /\ calls < MaxCalls
    /\ \A t \in Threads : pc[t] = "idle"
    /\ SweepAndRespond(req, api,
                       Branch(req.command, reminders, now,
                              api @@ [weatherKey |-> keys.weather, newsKey |-> keys.news],
                              created + 1))
    /\ calls' = calls + 1
    /\ UNCHANGED <<now, keys, ticks, pc, loc>>

Next ==
    \/ \E step \in TickSteps : Tick(step)
    \/ \E req \in Requests : \E api \in Envs(req.command) : ProcessCommand(req, api)

Spec == Init /\ [][Next]_vars

\* ---------------------------------------------------------------- threads
\* Two requests served at once by the threaded server, interleaved at the
\* statements that read or change the shared list `reminders`.
ThreadCommands ==
    {c \in Commands : Parsed[c].branch \in {"reminder", "unknown"}
                        /\ Parsed[c].time_str # <<>> => Contains(Parsed[c].time_str, KwSeconds)}

\* Lines 258-259 in thread t, after its if/elif chain did b: current_time,
\* the empty reminders_to_remove and the list iterator.
EnterSweep(t, b) ==
    /\ reminders' = b.store
    /\ created' = created + (Len(b.store) - Len(reminders))
    /\ loc' = [loc EXCEPT ![t] = [n |-> @.n + 1, response_data |-> b.response_data,
                                  current_time |-> now, i |-> 0, to_remove |-> <<>>,
                                  status |-> 0, remove_failed |-> FALSE]]

\* Lines 193-259: request.json and the if/elif chain (reminders.append is its
\* one access to the list) for a JSON request carrying the command c.
Receive(t, c) ==
    /\ pc[t] \in {"idle", "done"}
    /\ loc[t].n < MaxThreadCalls
    /\ EnterSweep(t, Branch(c, reminders, now,
                            DefaultEnv @@ [weatherKey |-> keys.weather, newsKey |-> keys.news],
                            created + 1))
    /\ pc' = [pc EXCEPT ![t] = "scan"]
    /\ UNCHANGED <<now, keys, last, calls, ticks, fired>>

\* Lines 260-263: one step of `for reminder in reminders`; the list iterator
\* keeps an index and compares it with the list's length at each step.
Scan(t) ==
    /\ pc[t] = "scan"
    /\ IF loc[t].i < Len(reminders)
       THEN LET reminder == reminders[loc[t].i + 1]
            IN  IF IsDue(reminder, loc[t].current_time)
                THEN /\ loc' = [loc EXCEPT ![t].i = @ + 1,
                                           ![t].response_data = ReminderAlert(reminder),
                                           ![t].to_remove = Append(@, reminder)]
                     /\ fired' = Append(fired, reminder.id)
                     /\ pc' = pc
                ELSE /\ loc' = [loc EXCEPT ![t].i = @ + 1]
                     /\ UNCHANGED <<fired, pc>>
       ELSE /\ pc' = [pc EXCEPT ![t] = "remove"]
            /\ UNCHANGED <<fired, loc>>
    /\ UNCHANGED <<reminders, now, keys, last, calls, ticks, created>>

\* Lines 265-271: one step of `for reminder in reminders_to_remove:
\* reminders.remove(reminder)`, then the response; the ValueError of a
\* remove that finds no equal element reaches the except clause.
Remove(t) ==
    /\ pc[t] = "remove"
    /\ IF loc[t].to_remove = <<>>
       THEN /\ loc' = [loc EXCEPT ![t].status = 200]
            /\ pc' = [pc EXCEPT ![t] = "done"]
            /\ UNCHANGED reminders
       ELSE LET r == RemoveFirst(reminders, Head(loc[t].to_remove))
            IN  IF r.raised
                THEN /\ loc' = [loc EXCEPT ![t].status = 500,
                                           ![t].response_data = ErrorResponse,
                                           ![t].remove_failed = TRUE]
                     /\ pc' = [pc EXCEPT ![t] = "done"]
                     /\ UNCHANGED reminders
                ELSE /\ reminders' = r.store
                     /\ loc' = [loc EXCEPT ![t].to_remove = Tail(@)]
                     /\ pc' = pc
    /\ UNCHANGED <<now, keys, last, calls, ticks, created, fired>>

NextThreads ==
    \/ \E t \in Threads, c \in ThreadCommands : Receive(t, c)
    \/ \E t \in Threads : Scan(t)
    \/ \E t \in Threads : Remove(t)

SpecThreads == Init /\ [][NextThreads]_vars

\* ---------------------------------------------------------------- claims
\* The latest call is a real call that read a JSON body.
Called == calls > 0
CalledJson == calls > 0 /\ last.json

\* A reminder's fire time has come at `time`: fire_at <= time.
FireAtOrBefore(r, time) == fromisoformat(r.time) <= time

\* The positions of `list` whose reminders are due at `time`.
DuePositions(list, time) == {i \in 1..Len(list) : FireAtOrBefore(list[i], time)}

Range(f) == {f[i] : i \in DOMAIN f}

\* C1 (as claimed): when a call of process_command has returned, whatever its
\* branch and however its handler ended, no reminder that was due at the time
\* of the call is left in the store.
C1_SweepAfterEveryCall ==
    Called => DuePositions(reminders, last.current_time) = {}

\* C2: a sweep that runs leaves no due reminder in the store; no reminder is
\* alerted twice; a reminder that was alerted is no longer in the store, and a
\* reminder leaves the store only by being alerted.
C2_FiresExactlyOnce ==
    /\ (Called /\ last.swept) => DuePositions(reminders, last.current_time) = {}
    /\ \A i, j \in 1..Len(fired) : fired[i] = fired[j] => i = j
    /\ \A i, j \in 1..Len(reminders) : reminders[i].id = reminders[j].id => i = j
    /\ Range(fired) \cap Range(Ids(reminders)) = {}
    /\ Range(fired) \cup Range(Ids(reminders)) = 1..created

\* C2's case: a reminder has fired, and a later call swept without an alert.
C2_Witness ==
    /\ Called /\ last.swept
    /\ last.to_remove = <<>>
    /\ fired # <<>>

\* The text "The current time is HH:MM AM/PM" for the clock value t.
IsClockText(text, t) ==
    /\ text.fmt = "The current time is {}"
    /\ Len(text.args) = 1
    /\ LET a == text.args[1]
           h24 == (t % 86400) \div 3600
       IN  /\ Len(a) = 8
           /\ IsDigit(a[1]) /\ IsDigit(a[2]) /\ a[3] = ":"
           /\ IsDigit(a[4]) /\ IsDigit(a[5]) /\ a[6] = " "
           /\ a[7] \in {"A", "P"} /\ a[8] = "M"
           /\ DigitsValue(SubSeq(a, 1, 2)) \in 1..12
           /\ DigitsValue(SubSeq(a, 1, 2)) % 12 = h24 % 12
           /\ DigitsValue(SubSeq(a, 4, 5)) = (t % 3600) \div 60
           /\ (a[7] = "P") <=> (h24 >= 12)

\* C3 (as claimed): every command with a time keyword is answered with type
\* `time` and the current time as HH:MM AM/PM, whatever the reminder store holds.
C3_TimeInEveryStore ==
    (CalledJson /\ AnyIn(TimeKeywords, last.command))
        => /\ last.response.type = "time"
           /\ IsClockText(last.response.text, last.t)

\* C3 (amended): a command with a time keyword is answered with type `time`
\* and the current time as HH:MM AM/PM when no reminder of the store is due at
\* the call's sweep.
C3_TimeWhenNothingDue ==
    (CalledJson /\ AnyIn(TimeKeywords, last.command)
        /\ DuePositions(last.afterBranch, last.current_time) = {})
        => /\ last.status = 200
           /\ last.response.type = "time"
           /\ IsClockText(last.response.text, last.t)

\* C3's case: a time command answered while the store holds a reminder that is not due.
C3_Witness ==
    /\ CalledJson /\ AnyIn(TimeKeywords, last.command)
    /\ reminders # <<>>
    /\ last.response.type = "time"

\* The intents in priority order, with their keyword tables.
IntentOrder ==
    << [intent |-> "time", keywords |-> TimeKeywords],
       [intent |-> "weather", keywords |-> WeatherKeywords],
       [intent |-> "news", keywords |-> <<KwNews>>],
       [intent |-> "reminder", keywords |-> ReminderKeywords],
       [intent |-> "confirmation", keywords |-> ConfirmationKeywords],
       [intent |-> "goodbye", keywords |-> GoodbyeKeywords] >>

FirstMatch(command) ==
    LET hits == {i \in 1..Len(IntentOrder) : AnyIn(IntentOrder[i].keywords, command)}
    IN  IF hits = {} THEN "unknown"
        ELSE IntentOrder[CHOOSE i \in hits : \A j \in hits : i <= j].intent

\* The response types an intent's handler answers with.
TypesOf(intent) ==
    CASE intent = "time" -> {"time"}
      [] intent = "weather" -> {"weather"}
      [] intent = "news" -> {"news"}
      [] intent = "reminder" -> {"reminder_set", "error"}
      [] intent = "confirmation" -> {"news_confirmation"}
      [] intent = "goodbye" -> {"goodbye"}
      [] OTHER -> {"error"}

\* C4: the branch that handles a command is the first of time > weather > news
\* > reminder > confirmation > goodbye whose keywords occur in the lowercased
\* command; only that branch's lookup is called and only the reminder branch
\* inserts; when no reminder is due the response has that intent's type (a
\* handler that ends in an exception answers `error`); "time" with "weather"
\* is `time`, and a command with no keyword gets the default `error` response.
C4_PriorityOrder ==
    CalledJson =>
        LET intent == FirstMatch(last.command)
        IN  /\ last.branch = intent
            /\ last.lookups \subseteq ({intent} \cap {"weather", "news"})
            /\ intent # "reminder" => (last.afterBranch = last.before /\ last.set_call = <<>>)
            /\ DuePositions(last.afterBranch, last.current_time) = {} =>
                  /\ ~last.raised => last.response.type \in TypesOf(intent)
                  /\ last.raised => (last.status = 500 /\ last.response.type = "error"
                                      /\ last.lookups # {})
                  /\ (AnyIn(TimeKeywords, last.command) /\ AnyIn(WeatherKeywords, last.command))
                        => last.response.type = "time"
                  /\ intent = "unknown" => last.response = DefaultResponse

\* C4's case: a command with a time and a weather keyword, answered as `time`.
C4_Witness ==
    /\ CalledJson
    /\ AnyIn(TimeKeywords, last.command) /\ AnyIn(WeatherKeywords, last.command)
    /\ last.response.type = "time"

\* The command of C5, its message and its time_spec.
CallMomCommand == <<"R", "e", "m", "i", "n", "d", " ", "m", "e", " ", "i", "n", " ", "5", " ", "m", "i", "n", "u", "t", "e", "s", " ", "t", "o", " ", "c", "a", "l", "l", " ", "m", "o", "m">>
CallMom == <<"c", "a", "l", "l", " ", "m", "o", "m">>
FiveMinutes == <<"5", " ", "m", "i", "n", "u", "t", "e", "s">>

\* C5 (as claimed): "remind me in 5 minutes to call mom" calls set_reminder
\* with message "call mom" and time_spec "5 minutes", and adds exactly one
\* reminder with that message and fire_at = now + 5 minutes.
C5_CallMom ==
    (CalledJson /\ last.command = Lower(CallMomCommand)) =>
        /\ last.set_call = <<[message |-> CallMom, time_spec |-> FiveMinutes]>>
        /\ Len(last.afterBranch) = Len(last.before) + 1
        /\ SubSeq(last.afterBranch, 1, Len(last.before)) = last.before
        /\ LET r == last.afterBranch[Len(last.afterBranch)]
           IN  r.text = CallMom /\ fromisoformat(r.time) = last.t + 5 * 60

\* C6 (as claimed): a news lookup with a key whose API call succeeds with
\* status ok and no results answers type `news`, no articles, and the text
\* "I couldn't find any news headlines for that topic from yesterday.", which
\* is not the text for a non-OK status.
C6_EmptyNewsText ==
    (CalledJson /\ last.branch = "news" /\ keys.news
        /\ last.api.news.kind = "body" /\ last.api.news.status = "ok"
        /\ last.api.news.results = <<>>
        /\ DuePositions(last.afterBranch, last.current_time) = {})
        => /\ last.response.type = "news"
           /\ last.response.articles = <<>>
           /\ last.response.text.fmt
                = "I couldn't find any news headlines for that topic from yesterday."
           /\ last.response.text.fmt # "I couldn't fetch any news headlines at the moment."

\* C7: a sweep that finds k >= 1 due reminders answers one reminder_alert with
\* the message of the last due reminder in store order, in place of the
\* branch's response; it removes the k due reminders and keeps the others.
C7_LastDueWins ==
    (Called /\ last.swept /\ DuePositions(last.afterBranch, last.current_time) # {}) =>
        LET due == DuePositions(last.afterBranch, last.current_time)
            latest == CHOOSE i \in due : \A j \in due : i >= j
        IN  /\ last.status = 200
            /\ last.response =
                  [text |-> Text("Reminder: {}", <<last.afterBranch[latest].text>>),
                   type |-> "reminder_alert"]
            /\ last.response # last.branchResponse
            /\ Len(last.to_remove) = Cardinality(due)
            /\ reminders = SelectSeq(last.afterBranch,
                                     LAMBDA r : ~FireAtOrBefore(r, last.current_time))

\* C7's case: one sweep found two due reminders.
C7_Witness ==
    /\ Called /\ last.swept
    /\ Cardinality(DuePositions(last.afterBranch, last.current_time)) >= 2
    /\ last.response.type = "reminder_alert"

\* C8: a sweep that finds no due reminder returns the branch's response
\* unchanged and leaves the store as it was, and sweeping again in that
\* state does the same.
C8_SweepIdempotent ==
    (Called /\ last.swept /\ DuePositions(last.afterBranch, last.current_time) = {}) =>
        /\ last.status = 200
        /\ last.response = last.branchResponse
        /\ last.to_remove = <<>>
        /\ reminders = last.afterBranch
        /\ Len(reminders) = Len(last.afterBranch)
        /\ LET again == Sweep(reminders, last.response, last.current_time)
           IN  /\ again.store = reminders
               /\ again.response_data = last.response
               /\ again.to_remove = <<>>

\* C8's case: a call that inserts nothing sweeps a store that holds
\* reminders, none of them due.
C8_Witness ==
    /\ Called /\ last.swept
    /\ last.before # <<>>
    /\ last.afterBranch = last.before
    /\ DuePositions(last.afterBranch, last.current_time) = {}
    /\ reminders = last.before

\* The offset in seconds a matched time string stands for: its number, in
\* seconds or minutes.
OffsetOf(time_spec) ==
    DigitsValue(SubSeq(time_spec, 1, SkipDigits(time_spec, 1) - 1))
        * (IF Contains(time_spec, KwSecond) THEN 1 ELSE 60)

\* C9 (as claimed): a reminder command that matches the time regex and has a
\* message inserts exactly one reminder {now + offset, message} and answers
\* `reminder_set` with that record; the store grows on no other path, and a
\* time_spec the handler rejects leaves the store unchanged and answers a
\* text without raising.
C9_MatchInserts ==
    CalledJson =>
        /\ last.set_call # <<>> =>
              /\ Len(last.afterBranch) = Len(last.before) + 1
              /\ SubSeq(last.afterBranch, 1, Len(last.before)) = last.before
              /\ LET r == last.afterBranch[Len(last.afterBranch)]
                 IN  /\ r.text = last.set_call[1].message
                     /\ fromisoformat(r.time) = last.t + OffsetOf(last.set_call[1].time_spec)
                     /\ last.branchResponse.type = "reminder_set"
                     /\ "reminder" \in DOMAIN last.branchResponse
                     /\ last.branchResponse.reminder = AsJson(r)
        /\ last.set_call = <<>> => last.afterBranch = last.before
        /\ (last.set_call # <<>> /\ last.afterBranch = last.before) =>
              /\ ~last.raised
              /\ "reminder" \notin DOMAIN last.branchResponse

\* C10 (as claimed): with two calls served at once, each reminder is alerted
\* by at most one of them, no reminders.remove fails because the other call
\* removed the reminder first, and no reminder leaves the store without
\* having been alerted.
C10_NoRaces ==
    /\ \A i, j \in 1..Len(fired) : fired[i] = fired[j] => i = j
    /\ \A t \in Threads : ~loc[t].remove_failed
    /\ (1..created) \subseteq (Range(fired) \cup Range(Ids(reminders)))
====
